---------------------------- MODULE Spec2Model ----------------------------
(***************************************************************************)
(* Model of lithium-pack-designer:                                         *)
(*   - ModelerPage (src/pages/ModelerPage.tsx, lines 1-307): the cell      *)
(*     catalog, the page state and the STL and SVG export handlers;        *)
(*   - ThreeScene (src/components/ResultDisplay.tsx, lines 23-325): the    *)
(*     scene initialisation, the pack building effect and                  *)
(*     getExportableMesh;                                                  *)
(*   - CalculatorPage (src/pages/CalculatorPage.tsx), BatteryGrid          *)
(*     (src/components/BatteryGrid.tsx) and App: the pack calculator, the  *)
(*     2D layout and the navigation between the two pages.                 *)
(*                                                                         *)
(* Lengths are integers in micrometres (1 mm = 1000): every catalog value  *)
(* and every derived value of the code (halves, diameter * 0.75,           *)
(* outerWidth / 2.5) is then an integer, so the arithmetic is the exact    *)
(* real arithmetic of the formulas; IEEE rounding of lengths is not        *)
(* modelled.  The two divisions of the calculator, whose result is         *)
(* rounded up to a cell count, are modelled with their double rounding.    *)
(*                                                                         *)
(* Spec models the modeler page and the scene at their component           *)
(* boundary: the props series and parallel range over -1..MaxSeries and    *)
(* -1..MaxParallel (the pack building effect tests totalCells === 0        *)
(* itself) and may change between renders, as the effect's dependency      *)
(* list provides for.  AppSpec models the application: the modeler page is *)
(* opened from the calculator only, with the configuration it computed.    *)
(***************************************************************************)
EXTENDS Integers, Sequences, FiniteSets, TLC

VARIABLES
    mounted,            \* ModelerPage (and its ThreeScene) is rendered
    series,             \* packConfig.series
    parallel,           \* packConfig.parallel
    cellType,           \* ModelerPage state cellType
    modelType,          \* ModelerPage state modelType
    wallThickness,      \* ModelerPage state wallThickness
    tolerance,          \* ModelerPage state tolerance
    isBuilding,         \* ModelerPage state isBuilding
    showBrackets,       \* ModelerPage state showBrackets
    isInitialized,      \* ThreeScene state isInitialized
    buildPending,       \* the pack building effect is scheduled to run
    packGroup,          \* sceneDataRef.current.packGroup.children
    exportableMeshRef,  \* exportableMeshRef.current
    buildLog,           \* what the last run of the pack building effect did
    lastExport,         \* output of the step just taken, when it was a call of
                        \* an export handler: the alert or the downloaded file
    live,               \* geometries and materials of pack objects of the
                        \* ThreeScene last mounted: created, dispose() not called
    app                 \* App state (page, modelerConfig) and CalculatorPage state

vars == <<mounted, series, parallel, cellType, modelType, wallThickness,
          tolerance, isBuilding, showBrackets, isInitialized, buildPending,
          packGroup, exportableMeshRef, buildLog, lastExport, live, app>>

---------------------------------------------------------------------------
(* Bounds of the model *)

MaxSeries == 3

MaxParallel == 3

\* values of the props series and parallel: the counts up to the bounds,
\* zero, and a negative count
SeriesInputs == (-1)..MaxSeries

ParallelInputs == (-1)..MaxParallel

---------------------------------------------------------------------------
(* Catalog: types.ts (src/unnamed/part_000) and ModelerPage.tsx *)

CellType == {"18650", "21700", "26650", "32700"}

ModelType == {"enclosure", "bracket"}

\* values typed into the enclosure settings (the useState defaults among
\* them); the inputs are plain number inputs, so zero and negative values
\* reach the setters
WallThicknessInputs == {0, 1000, 2000}

ToleranceInputs == {-500, 0, 500}

CELL_DIMENSIONS ==
    [ct \in CellType |->
        CASE ct = "18650" -> [diameter |-> 18500, height |-> 65200]
          [] ct = "21700" -> [diameter |-> 21200, height |-> 70300]
          [] ct = "26650" -> [diameter |-> 26200, height |-> 65400]
          [] ct = "32700" -> [diameter |-> 32300, height |-> 70500]]

\* mutant: the hole of the 32700 holder as wide as its frame
HOLDER_DIMENSIONS_NoRim ==
    [ct \in CellType |->
        CASE ct = "18650" -> [holeDiameter |-> 18400, outerWidth |-> 22400, outerDepth |-> 22400]
          [] ct = "21700" -> [holeDiameter |-> 21200, outerWidth |-> 25200, outerDepth |-> 25200]
          [] ct = "26650" -> [holeDiameter |-> 26300, outerWidth |-> 30300, outerDepth |-> 30300]
          [] ct = "32700" -> [holeDiameter |-> 36500, outerWidth |-> 36500, outerDepth |-> 36500]]

HOLDER_DIMENSIONS ==
    [ct \in CellType |->
        CASE ct = "18650" -> [holeDiameter |-> 18400, outerWidth |-> 22400, outerDepth |-> 22400]
          [] ct = "21700" -> [holeDiameter |-> 21200, outerWidth |-> 25200, outerDepth |-> 25200]
          [] ct = "26650" -> [holeDiameter |-> 26300, outerWidth |-> 30300, outerDepth |-> 30300]
          [] ct = "32700" -> [holeDiameter |-> 32500, outerWidth |-> 36500, outerDepth |-> 36500]]

---------------------------------------------------------------------------
(* Scene objects.  Every object is a record of the same shape:             *)
(*   kind      which object of the build it is                             *)
(*   position  <<x, y, z>> of the object (Object3D.position)               *)
(*   rotY      rotation about the Y axis in degrees (0 or 90)              *)
(*   size      <<x, y, z>> extent of its geometry                          *)
(*   matrix    per-instance transforms of an InstancedMesh (else empty)    *)
(*   children  children of a Group (else empty)                            *)

Vec(x, y, z) == <<x, y, z>>

Origin == Vec(0, 0, 0)

Obj(kind, position, rotY, size, matrix, children) ==
    [kind |-> kind, position |-> position, rotY |-> rotY, size |-> size,
     matrix |-> matrix, children |-> children]

Mesh(kind, position, rotY, size) == Obj(kind, position, rotY, size, <<>>, <<>>)

InstancedMesh(kind, size, matrix) == Obj(kind, Origin, 0, size, matrix, <<>>)

Group(kind, children) == Obj(kind, Origin, 0, Origin, <<>>, children)

\* dummy.matrix after dummy.position.set(..) / dummy.quaternion / updateMatrix()
Matrix(position, rotY) == [position |-> position, rotY |-> rotY]

NullObj == Obj("null", Origin, 0, Origin, <<>>, <<>>)

---------------------------------------------------------------------------
(* The pack building effect of ThreeScene, as functions of its props.      *)
(* S = series, P = parallel, cd = cellDimensions, hd = holderDimensions.   *)

bracketHeight == 8000

toothDepth == 1500

stripThickness == 500

toothWidth(hd) == (hd.outerWidth * 2) \div 5

packWidth(P, hd) == P * hd.outerWidth

packLength(S, hd) == S * hd.outerDepth

stripYTop(cd) == cd.height + stripThickness \div 2

stripYBottom == -(stripThickness \div 2)

\* mutant: the half-holder offset is left out
CellX_NoHalf(p, P, hd) == p * hd.outerWidth - (packWidth(P, hd) \div 2)

\* x and z of the placement loop, for grid index (s, p)
CellX(p, P, hd) == p * hd.outerWidth - (packWidth(P, hd) \div 2) + (hd.outerWidth \div 2)

CellZ(s, S, hd) == s * hd.outerDepth - (packLength(S, hd) \div 2) + (hd.outerDepth \div 2)

\* grid index of instance i (0-based), as the nested loops count it
RowOf(i, P) == i \div P

ColOf(i, P) == i % P

cellMatrix(i, S, P, hd) ==
    Matrix(Vec(CellX(ColOf(i, P), P, hd), 0, CellZ(RowOf(i, P), S, hd)), 0)

bracketFrameMatrix(i, S, P, hd) ==
    Matrix(Vec(CellX(ColOf(i, P), P, hd), bracketHeight \div 2, CellZ(RowOf(i, P), S, hd)), 0)

toothRightMatrix(i, S, P, hd) ==
    Matrix(Vec(CellX(ColOf(i, P), P, hd) + hd.outerWidth \div 2, bracketHeight \div 2,
               CellZ(RowOf(i, P), S, hd)), 0)

toothTopMatrix(i, S, P, hd) ==
    Matrix(Vec(CellX(ColOf(i, P), P, hd), bracketHeight \div 2,
               CellZ(RowOf(i, P), S, hd) + hd.outerDepth \div 2), 90)

\* number of instances the InstancedMeshes are created with
totalCells(S, P) == S * P

\* number of instances the placement loop writes: its two nested loops run
\* only for positive counts
LoopCount(S, P) == IF S > 0 /\ P > 0 THEN S * P ELSE 0

\* matrix of an instance the placement loop never wrote (an InstancedMesh
\* has totalCells instances, of which the loop writes the first LoopCount)
DefaultMatrix == Matrix(Origin, 0)

cellIM(S, P, cd, hd) ==
    InstancedMesh("cellIM", Vec(cd.diameter, cd.height, cd.diameter),
                  [i \in 1..totalCells(S, P) |->
                      IF i <= LoopCount(S, P) THEN cellMatrix(i - 1, S, P, hd)
                                              ELSE DefaultMatrix])

bracketFrameIM(S, P, hd) ==
    InstancedMesh("bracketFrameIM", Vec(hd.outerWidth, bracketHeight, hd.outerDepth),
                  [i \in 1..totalCells(S, P) |->
                      IF i <= LoopCount(S, P) THEN bracketFrameMatrix(i - 1, S, P, hd)
                                              ELSE DefaultMatrix])

toothRightIM(S, P, hd) ==
    InstancedMesh("toothRightIM", Vec(toothDepth, bracketHeight, toothWidth(hd)),
                  [i \in 1..totalCells(S, P) |->
                      IF i <= LoopCount(S, P) THEN toothRightMatrix(i - 1, S, P, hd)
                                              ELSE DefaultMatrix])

toothTopIM(S, P, hd) ==
    InstancedMesh("toothTopIM", Vec(toothDepth, bracketHeight, toothWidth(hd)),
                  [i \in 1..totalCells(S, P) |->
                      IF i <= LoopCount(S, P) THEN toothTopMatrix(i - 1, S, P, hd)
                                              ELSE DefaultMatrix])

bracketAssembly(S, P, hd) ==
    Group("bracketAssembly",
          <<bracketFrameIM(S, P, hd), toothRightIM(S, P, hd), toothTopIM(S, P, hd)>>)

\* connection strips
stripDepth(cd) == (cd.diameter * 3) \div 4

ParallelStripY(s, cd) == IF s % 2 # 0 THEN stripYBottom ELSE stripYTop(cd)

parallelStrip(s, S, P, cd, hd) ==
    Mesh("parallelStrip", Vec(0, ParallelStripY(s, cd), CellZ(s, S, hd)), 0,
         Vec(packWidth(P, hd), stripThickness, stripDepth(cd)))

\* for (s = 0; s < series; s++): no pass when series <= 0
ParallelStripCount(S) == IF S > 0 THEN S ELSE 0

parallelStrips(S, P, cd, hd) ==
    [k \in 1..ParallelStripCount(S) |-> parallelStrip(k - 1, S, P, cd, hd)]

\* mutant: the snake starts at the left end
SeriesStripX_Flipped(s, P, hd) ==
    IF s % 2 # 0 THEN (packWidth(P, hd) \div 2) - (hd.outerWidth \div 2)
                 ELSE -(packWidth(P, hd) \div 2) + (hd.outerWidth \div 2)

SeriesStripX(s, P, hd) ==
    IF s % 2 = 0 THEN (packWidth(P, hd) \div 2) - (hd.outerWidth \div 2)
                 ELSE -(packWidth(P, hd) \div 2) + (hd.outerWidth \div 2)

SeriesStripZ(s, S, hd) == s * hd.outerDepth - (packLength(S, hd) \div 2) + hd.outerDepth

\* mutant: every series strip on the top plane
SeriesStripY_Top(s, cd) == stripYTop(cd)

\* mutant: the plane of the next row
SeriesStripY_Next(s, cd) == IF s % 2 = 0 THEN stripYBottom ELSE stripYTop(cd)

SeriesStripY(s, cd) == IF s % 2 = 0 THEN stripYTop(cd) ELSE stripYBottom

seriesStrip(s, S, P, cd, hd) ==
    Mesh("seriesStrip", Vec(SeriesStripX(s, P, hd), SeriesStripY(s, cd), SeriesStripZ(s, S, hd)),
         90, Vec(hd.outerWidth, stripThickness, stripDepth(cd)))

\* mutant: the series loop runs to s < series
SeriesStripCount_ToSeries(S) == S

SeriesStripCount(S) == IF S > 1 THEN S - 1 ELSE 0

seriesStrips(S, P, cd, hd) ==
    [k \in 1..SeriesStripCount(S) |-> seriesStrip(k - 1, S, P, cd, hd)]

\* terminals
terminalSize(cd, hd) == Vec(hd.outerWidth \div 2, stripThickness * 4, stripDepth(cd))

posTerminal(S, P, cd, hd) ==
    Mesh("posTerminal",
         Vec(-(packWidth(P, hd) \div 2) + (hd.outerWidth \div 2), stripYTop(cd),
             -(packLength(S, hd) \div 2) + (hd.outerDepth \div 2)),
         0, terminalSize(cd, hd))

lastRowIndex(S) == S - 1

\* mutant: the negative terminal always on the top plane
negY_Top(S, cd) == stripYTop(cd)

negY(S, cd) == IF lastRowIndex(S) % 2 # 0 THEN stripYBottom ELSE stripYTop(cd)

\* mutant: the negative terminal on the side of the entering strip
negX_Flipped(S, P, hd) ==
    IF lastRowIndex(S) % 2 # 0 THEN (packWidth(P, hd) \div 2) - (hd.outerWidth \div 2)
                               ELSE -(packWidth(P, hd) \div 2) + (hd.outerWidth \div 2)

negX(S, P, hd) ==
    IF lastRowIndex(S) % 2 = 0 THEN (packWidth(P, hd) \div 2) - (hd.outerWidth \div 2)
                               ELSE -(packWidth(P, hd) \div 2) + (hd.outerWidth \div 2)

negTerminal(S, P, cd, hd) ==
    Mesh("negTerminal",
         Vec(negX(S, P, hd), negY(S, cd),
             lastRowIndex(S) * hd.outerDepth - (packLength(S, hd) \div 2) + (hd.outerDepth \div 2)),
         0, terminalSize(cd, hd))

terminals(S, P, cd, hd) == <<posTerminal(S, P, cd, hd), negTerminal(S, P, cd, hd)>>

\* the children of packGroup after a build with totalCells # 0, in the order added
BuiltPack(S, P, cd, hd) ==
    <<cellIM(S, P, cd, hd), bracketAssembly(S, P, hd)>>
        \o parallelStrips(S, P, cd, hd)
        \o seriesStrips(S, P, cd, hd)
        \o terminals(S, P, cd, hd)

\* mutant: no teardown, the previous children stay
Teardown_None(children) == children

\* mutant: the teardown removes the first child only
Teardown_First(children) ==
    IF Len(children) > 0 THEN Tail(children) ELSE children

\* the teardown loop: while (packGroup.children.length > 0) remove children[0]
RECURSIVE Teardown(_)
Teardown(children) ==
    IF Len(children) > 0 THEN Teardown(Tail(children)) ELSE children

\* new THREE.InstancedMesh(geometry, material, totalCells) allocates a
\* Float32Array of totalCells * 16 elements: a negative count raises a
\* RangeError, which leaves the effect at its first InstancedMesh
Throws(S, P) == totalCells(S, P) < 0

\* what the effect adds to packGroup after the teardown: nothing on the
\* early return of the empty check (or when it throws), else the built pack
AddedPack(S, P, cd, hd) ==
    IF totalCells(S, P) = 0 \/ Throws(S, P) THEN <<>> ELSE BuiltPack(S, P, cd, hd)

\* mutant: the exportable assembly is that of one cell, whatever S and P
ExportableFor_OneCell(S, P, hd) ==
    IF totalCells(S, P) = 0 \/ Throws(S, P) THEN NullObj ELSE bracketAssembly(1, 1, hd)

\* exportableMeshRef.current after the effect: set to null after the
\* teardown, and to the bracket assembly past the empty check
ExportableFor(S, P, hd) ==
    IF totalCells(S, P) = 0 \/ Throws(S, P) THEN NullObj ELSE bracketAssembly(S, P, hd)

\* whether the run calls onBuildComplete: on the early return and at the end
CallsBuildComplete(S, P) ==
    IF totalCells(S, P) = 0 THEN TRUE ELSE ~Throws(S, P)

\* record of one run of the effect: whether the teardown loop removed any
\* child, the number of children added afterwards, whether onBuildComplete
\* was called, and whether the run ended in an exception
BuildLog(removed, created, completed, threw) ==
    [ran |-> TRUE, removed |-> removed, created |-> created,
     completed |-> completed, threw |-> threw]

NoBuild ==
    [ran |-> FALSE, removed |-> FALSE, created |-> 0, completed |-> FALSE, threw |-> FALSE]

\* The geometry and the material an object was constructed with, each named
\* by the variable of the effect that holds it.  The strip geometries are
\* created once per strip, inside the loops: they are told apart by the
\* position of their strip.  A Group has neither.
geometryOf(o) ==
    CASE o.kind = "cellIM"         -> {<<"cellGeo", Origin>>}
      [] o.kind = "bracketFrameIM" -> {<<"bracketFrameGeo", Origin>>}
      [] o.kind = "toothRightIM"   -> {<<"bracketToothGeo", Origin>>}
      [] o.kind = "toothTopIM"     -> {<<"bracketToothGeo", Origin>>}
      [] o.kind = "parallelStrip"  -> {<<"parallelStripGeo", o.position>>}
      [] o.kind = "seriesStrip"    -> {<<"seriesStripGeo", o.position>>}
      [] o.kind = "posTerminal"    -> {<<"terminalGeo", Origin>>}
      [] o.kind = "negTerminal"    -> {<<"terminalGeo", Origin>>}
      [] OTHER                     -> {}

materialOf(o) ==
    CASE o.kind = "cellIM"         -> {<<"cellMat", Origin>>}
      [] o.kind = "bracketFrameIM" -> {<<"bracketMat", Origin>>}
      [] o.kind = "toothRightIM"   -> {<<"bracketMat", Origin>>}
      [] o.kind = "toothTopIM"     -> {<<"bracketMat", Origin>>}
      [] o.kind = "parallelStrip"  -> {<<"stripMaterial", Origin>>}
      [] o.kind = "seriesStrip"    -> {<<"stripMaterial", Origin>>}
      [] o.kind = "posTerminal"    -> {<<"posTerminalMaterial", Origin>>}
      [] o.kind = "negTerminal"    -> {<<"negTerminalMaterial", Origin>>}
      [] OTHER                     -> {}

\* child.traverse(callback): the object itself and its descendants (the
\* children of the bracket assembly have none of their own)
Traverse(o) == {o} \cup {o.children[k] : k \in 1..Len(o.children)}

\* the geometries and materials the objects of a list of children hold
ResourcesOf(children) ==
    UNION {geometryOf(o) \cup materialOf(o) :
              o \in UNION {Traverse(children[k]) : k \in 1..Len(children)}}

\* the children the teardown loop takes out of packGroup: it removes
\* children[0] until none is left
Removed(children) == SubSeq(children, 1, Len(children) - Len(Teardown(children)))

\* mutant: the removed children are dropped without dispose()
DisposedBy_Nothing(removed) == {}

\* What the teardown loop disposes: every removed child is a Mesh, an
\* InstancedMesh or a Group, so each is traversed, and the callback calls
\* dispose() on the geometry and on the material of every object it visits.
DisposedBy(removed) == ResourcesOf(removed)

---------------------------------------------------------------------------
(* getExportableMesh (ThreeScene) *)

\* the loop over the children and their instances: one geometry per instance
RECURSIVE InstanceGeometries(_)
InstanceGeometries(children) ==
    IF children = <<>> THEN <<>>
    ELSE [k \in 1..Len(Head(children).matrix) |->
            [kind |-> Head(children).kind, matrix |-> Head(children).matrix[k]]]
         \o InstanceGeometries(Tail(children))

getExportableMesh(ref) ==
    IF ref = NullObj THEN NullObj
    ELSE IF Len(InstanceGeometries(ref.children)) = 0 THEN NullObj
    ELSE ref

---------------------------------------------------------------------------
(* handleExportSTL (ModelerPage) *)

\* useMemo dimensions
dimensions(ct, S, P) ==
    [length |-> S * HOLDER_DIMENSIONS[ct].outerDepth,
     width  |-> P * HOLDER_DIMENSIONS[ct].outerWidth,
     height |-> CELL_DIMENSIONS[ct].height]

\* mutant: the height takes the wall thickness twice
EnclosureGroup_DoubleWall(dim, wall, tol) ==
    LET innerLength == dim.length + tol * 2
        innerWidth  == dim.width + tol * 2
        innerHeight == dim.height + tol * 2
        outerLength == innerLength + wall * 2
        outerWidth  == innerWidth + wall * 2
        outerHeight == innerHeight + wall * 2
        bottom == Mesh("bottom", Vec(0, 0, -(outerHeight \div 2) + wall \div 2), 0,
                       Vec(outerWidth, outerLength, wall))
        front  == Mesh("frontWall", Vec(0, outerLength \div 2 - wall \div 2, wall \div 2), 0,
                       Vec(outerWidth, wall, innerHeight))
        back   == Mesh("backWall", Vec(0, -(outerLength \div 2) + wall \div 2, wall \div 2), 0,
                       Vec(outerWidth, wall, innerHeight))
        left   == Mesh("leftWall", Vec(-(outerWidth \div 2) + wall \div 2, 0, wall \div 2), 0,
                       Vec(wall, innerLength, innerHeight))
        right  == Mesh("rightWall", Vec(outerWidth \div 2 - wall \div 2, 0, wall \div 2), 0,
                       Vec(wall, innerLength, innerHeight))
        top    == Mesh("top", Vec(outerWidth + 10000, 0, -(outerHeight \div 2) + wall \div 2), 0,
                       Vec(outerWidth, outerLength, wall))
    IN  Group("enclosure", <<bottom, front, back, left, right, top>>)

\* mutant: the lid is translated by outerWidth only
EnclosureGroup_LidTouching(dim, wall, tol) ==
    LET innerLength == dim.length + tol * 2
        innerWidth  == dim.width + tol * 2
        innerHeight == dim.height + tol * 2
        outerLength == innerLength + wall * 2
        outerWidth  == innerWidth + wall * 2
        outerHeight == innerHeight + wall
        bottom == Mesh("bottom", Vec(0, 0, -(outerHeight \div 2) + wall \div 2), 0,
                       Vec(outerWidth, outerLength, wall))
        front  == Mesh("frontWall", Vec(0, outerLength \div 2 - wall \div 2, wall \div 2), 0,
                       Vec(outerWidth, wall, innerHeight))
        back   == Mesh("backWall", Vec(0, -(outerLength \div 2) + wall \div 2, wall \div 2), 0,
                       Vec(outerWidth, wall, innerHeight))
        left   == Mesh("leftWall", Vec(-(outerWidth \div 2) + wall \div 2, 0, wall \div 2), 0,
                       Vec(wall, innerLength, innerHeight))
        right  == Mesh("rightWall", Vec(outerWidth \div 2 - wall \div 2, 0, wall \div 2), 0,
                       Vec(wall, innerLength, innerHeight))
        top    == Mesh("top", Vec(outerWidth, 0, -(outerHeight \div 2) + wall \div 2), 0,
                       Vec(outerWidth, outerLength, wall))
    IN  Group("enclosure", <<bottom, front, back, left, right, top>>)

\* mutant: the left and right wall as long as the box
EnclosureGroup_LongSideWalls(dim, wall, tol) ==
    LET innerLength == dim.length + tol * 2
        innerWidth  == dim.width + tol * 2
        innerHeight == dim.height + tol * 2
        outerLength == innerLength + wall * 2
        outerWidth  == innerWidth + wall * 2
        outerHeight == innerHeight + wall
        bottom == Mesh("bottom", Vec(0, 0, -(outerHeight \div 2) + wall \div 2), 0,
                       Vec(outerWidth, outerLength, wall))
        front  == Mesh("frontWall", Vec(0, outerLength \div 2 - wall \div 2, wall \div 2), 0,
                       Vec(outerWidth, wall, innerHeight))
        back   == Mesh("backWall", Vec(0, -(outerLength \div 2) + wall \div 2, wall \div 2), 0,
                       Vec(outerWidth, wall, innerHeight))
        left   == Mesh("leftWall", Vec(-(outerWidth \div 2) + wall \div 2, 0, wall \div 2), 0,
                       Vec(wall, outerLength, innerHeight))
        right  == Mesh("rightWall", Vec(outerWidth \div 2 - wall \div 2, 0, wall \div 2), 0,
                       Vec(wall, outerLength, innerHeight))
        top    == Mesh("top", Vec(outerWidth + 10000, 0, -(outerHeight \div 2) + wall \div 2), 0,
                       Vec(outerWidth, outerLength, wall))
    IN  Group("enclosure", <<bottom, front, back, left, right, top>>)

\* the enclosure branch: six panels, each a BoxGeometry (size) translated
\* (position); the lid lies beside the box
EnclosureGroup(dim, wall, tol) ==
    LET innerLength == dim.length + tol * 2
        innerWidth  == dim.width + tol * 2
        innerHeight == dim.height + tol * 2
        outerLength == innerLength + wall * 2
        outerWidth  == innerWidth + wall * 2
        outerHeight == innerHeight + wall
        bottom == Mesh("bottom", Vec(0, 0, -(outerHeight \div 2) + wall \div 2), 0,
                       Vec(outerWidth, outerLength, wall))
        front  == Mesh("frontWall", Vec(0, outerLength \div 2 - wall \div 2, wall \div 2), 0,
                       Vec(outerWidth, wall, innerHeight))
        back   == Mesh("backWall", Vec(0, -(outerLength \div 2) + wall \div 2, wall \div 2), 0,
                       Vec(outerWidth, wall, innerHeight))
        left   == Mesh("leftWall", Vec(-(outerWidth \div 2) + wall \div 2, 0, wall \div 2), 0,
                       Vec(wall, innerLength, innerHeight))
        right  == Mesh("rightWall", Vec(outerWidth \div 2 - wall \div 2, 0, wall \div 2), 0,
                       Vec(wall, innerLength, innerHeight))
        top    == Mesh("top", Vec(outerWidth + 10000, 0, -(outerHeight \div 2) + wall \div 2), 0,
                       Vec(outerWidth, outerLength, wall))
    IN  Group("enclosure", <<bottom, front, back, left, right, top>>)

\* meshToExport, by export mode
meshToExport(mode, ct, S, P, wall, tol, ref) ==
    IF mode = "enclosure" THEN EnclosureGroup(dimensions(ct, S, P), wall, tol)
    ELSE getExportableMesh(ref)

fileName(mode, ct, S, P) ==
    <<IF mode = "enclosure" THEN "enclosure" ELSE "brackets", S, P, ct, "stl">>

\* the drawing of an output that is not an SVG file
NoSvg == [width |-> <<>>, height |-> <<>>, viewBox |-> <<>>, circles |-> <<>>, rects |-> <<>>]

\* outcome of one call: the alert, or the file handed to the download anchor
ExportAlert(mode, S, P) ==
    [outcome |-> "alert", mode |-> mode, series |-> S, parallel |-> P,
     fileName |-> <<>>, mesh |-> NullObj, svg |-> NoSvg]

ExportFile(mode, S, P, name, mesh) ==
    [outcome |-> "file", mode |-> mode, series |-> S, parallel |-> P,
     fileName |-> name, mesh |-> mesh, svg |-> NoSvg]

NoExport ==
    [outcome |-> "none", mode |-> "enclosure", series |-> 0, parallel |-> 0,
     fileName |-> <<>>, mesh |-> NullObj, svg |-> NoSvg]

ExportOutcome(mode, ct, S, P, wall, tol, ref) ==
    IF meshToExport(mode, ct, S, P, wall, tol, ref) = NullObj
    THEN ExportAlert(mode, S, P)
    ELSE ExportFile(mode, S, P, fileName(mode, ct, S, P),
                    meshToExport(mode, ct, S, P, wall, tol, ref))

---------------------------------------------------------------------------
(* handleExportSVG (ModelerPage) *)

padding == 20000

\* mutant: the padding is added once
svgWidth_OnePadding(dim) == dim.width + padding

svgWidth(dim) == dim.width + padding * 2

svgHeight(dim) == dim.length + padding * 2

\* mutant: the circle at the origin of its rectangle
circleCx_NoHalf(p, hd) == p * hd.outerWidth

\* attributes of the circle and of the rectangle of grid index (s, p)
circleCx(p, hd) == p * hd.outerWidth + hd.outerWidth \div 2

circleCy(s, hd) == s * hd.outerDepth + hd.outerDepth \div 2

svgCircle(s, p, ct) ==
    [cx |-> circleCx(p, HOLDER_DIMENSIONS[ct]), cy |-> circleCy(s, HOLDER_DIMENSIONS[ct]),
     r |-> CELL_DIMENSIONS[ct].diameter \div 2]

svgRect(s, p, ct) ==
    [x |-> p * HOLDER_DIMENSIONS[ct].outerWidth, y |-> s * HOLDER_DIMENSIONS[ct].outerDepth,
     width |-> HOLDER_DIMENSIONS[ct].outerWidth, height |-> HOLDER_DIMENSIONS[ct].outerDepth]

\* the svg element: width and height carry the unit, the viewBox does not;
\* the nested loops append one circle and one rectangle per grid index
SvgDrawing(ct, S, P) ==
    [width   |-> <<svgWidth(dimensions(ct, S, P)), "mm">>,
     height  |-> <<svgHeight(dimensions(ct, S, P)), "mm">>,
     viewBox |-> <<0, 0, svgWidth(dimensions(ct, S, P)), svgHeight(dimensions(ct, S, P))>>,
     circles |-> [i \in 1..LoopCount(S, P) |-> svgCircle(RowOf(i - 1, P), ColOf(i - 1, P), ct)],
     rects   |-> [i \in 1..LoopCount(S, P) |-> svgRect(RowOf(i - 1, P), ColOf(i - 1, P), ct)]]

svgFileName(ct, S, P) == <<"pack", S, P, ct, "svg">>

\* outcome of one call of handleExportSVG: always a file
SvgFile(mode, ct, S, P) ==
    [outcome |-> "svg", mode |-> mode, series |-> S, parallel |-> P,
     fileName |-> svgFileName(ct, S, P), mesh |-> NullObj, svg |-> SvgDrawing(ct, S, P)]

---------------------------------------------------------------------------
(* App and CalculatorPage *)

\* The value of a number input after parseFloat: NaN, or the number
\* v * 10^e.  The decimal values have e = -1 (tenths of the unit: 37 is
\* 3.7 V); an input in exponent notation, 1e-200 or 1e200, is a number too.
Val(v, e) == [nan |-> FALSE, v |-> v, e |-> e]

Num(v) == Val(v, -1)

NaN == [nan |-> TRUE, v |-> 0, e |-> -1]

\* x > 0 as JavaScript evaluates it: false when x is NaN
GreaterThanZero(x) == ~x.nan /\ x.v > 0

\* What is typed into the four inputs of the pack calculator.  The small
\* exponent is among the dividends and the large one among the divisors.
DesiredVoltageInputs == {NaN, Num(0), Val(1, -200), Num(168), Num(480)}

CellVoltageInputs == {Num(24), Num(37), Val(1, 200)}

DesiredCapacityInputs == {Num(26), Num(100), Num(1300)}

CellCapacityInputs == {Num(-10), Num(26)}

\* a / b is the IEEE-754 double division of the doubles nearest to the two
\* decimal inputs.  When the decimal quotient is not an integer it is at
\* least 1/b away from one, far beyond a rounding error, and Math.ceil of
\* the double quotient is the exact ceiling.  When it is an integer n the
\* double quotient is n or one unit in the last place off; this is the set
\* of the pairs (a, b) of the decimal inputs above, in tenths, whose double
\* quotient lies above n:  16.8 / 2.4 = 7.000000000000001.
\* (48 / 2.4 = 20, 2.6 / 2.6 = 1 and 130 / 2.6 = 50 are exact.)
QuotientAboveInteger == {<<168, 24>>}

\* a / b for a of the smaller exponent: the quotient lies between 0 and 1,
\* and below 10^-323 it is closer to 0 than to the least positive double
\* (4.9 * 10^-324), so the division yields 0:  1e-200 / 1e200 = 0.
Underflows(a, b) == a.e - b.e < -323

\* Math.ceil(a / b) for a > 0, b > 0, the exponent of a not above that of b
CeilOfQuotient(a, b) ==
    IF a.e = b.e
    THEN IF a.v % b.v = 0
         THEN (a.v \div b.v) + (IF <<a.v, b.v>> \in QuotientAboveInteger THEN 1 ELSE 0)
         ELSE (a.v \div b.v) + 1
    ELSE IF Underflows(a, b) THEN 0 ELSE 1

\* no pack configuration: packConfig / modelerConfig is null
Null == [null |-> TRUE]

\* calculatePack: the value handed to setPackConfig
calculatePack(desiredVoltage, desiredCapacity, cellVoltage, cellCapacity) ==
    IF /\ GreaterThanZero(desiredVoltage) /\ GreaterThanZero(desiredCapacity)
       /\ GreaterThanZero(cellVoltage) /\ GreaterThanZero(cellCapacity)
    THEN [series         |-> CeilOfQuotient(desiredVoltage, cellVoltage),
          parallel       |-> CeilOfQuotient(desiredCapacity, cellCapacity),
          totalCells     |-> CeilOfQuotient(desiredVoltage, cellVoltage)
                               * CeilOfQuotient(desiredCapacity, cellCapacity),
          actualVoltage  |-> Val(CeilOfQuotient(desiredVoltage, cellVoltage) * cellVoltage.v,
                                 cellVoltage.e),
          actualCapacity |-> Val(CeilOfQuotient(desiredCapacity, cellCapacity) * cellCapacity.v,
                                 cellCapacity.e),
          totalEnergy    |-> Val((CeilOfQuotient(desiredVoltage, cellVoltage) * cellVoltage.v)
                                   * (CeilOfQuotient(desiredCapacity, cellCapacity)
                                        * cellCapacity.v),
                                 cellVoltage.e + cellCapacity.e)]
    ELSE Null

\* State of App (page, modelerConfig) and of the CalculatorPage it renders
\* (the four inputs, packConfig, and whether the effect that calls
\* calculatePack is scheduled).
AppState(page, modelerConfig, dv, dc, cv, cc, packConfig, calcPending) ==
    [page |-> page, modelerConfig |-> modelerConfig,
     desiredVoltage |-> dv, desiredCapacity |-> dc, cellVoltage |-> cv, cellCapacity |-> cc,
     packConfig |-> packConfig, calcPending |-> calcPending]

\* the calculator page as first rendered: the useState defaults, the effect
\* of the first render scheduled
CalculatorMounted ==
    AppState("calculator", Null, Num(480), Num(100), Num(37), Num(26), Null, TRUE)

\* the modeler page shown: the calculator page is not rendered, its state
\* is gone
ModelerShown(config) ==
    AppState("modeler", config, Num(480), Num(100), Num(37), Num(26), Null, FALSE)

\* the modeler page rendered by something else than App
NoApp == AppState("none", Null, Num(480), Num(100), Num(37), Num(26), Null, FALSE)

---------------------------------------------------------------------------
(* BatteryGrid: the 2D layout of the calculator page, as a function of its *)
(* props.  Rows and columns are the CSS grid lines, counted from 1.        *)

MAX_CELLS_TO_RENDER == 200

\* the guard of the component: a message instead of the grid
gridHidden(S, P) == S * P > MAX_CELLS_TO_RENDER \/ S < 1 \/ P < 1

\* column of the negative terminal
endColumn(S, P) == IF S % 2 # 0 THEN P ELSE 1

\* mutant: the snake starts in the first column
column_Flipped(s_idx, P) == IF s_idx % 2 # 0 THEN 1 ELSE P

\* column of the series strip that starts in grid row s_idx
column(s_idx, P) == IF s_idx % 2 # 0 THEN P ELSE 1

\* the series strip of index i of Array.from({ length: series - 1 }):
\* gridRow: `${s_idx} / span 2`, gridColumn: column
gridSeriesStrip(i, P) ==
    [gridRow |-> i + 1, span |-> 2, gridColumn |-> column(i + 1, P)]

BatteryGrid(S, P) ==
    IF gridHidden(S, P)
    THEN [hidden |-> TRUE, cells |-> 0, parallelStrips |-> <<>>, seriesStrips |-> <<>>,
          posTerminal |-> [gridRow |-> 0, gridColumn |-> 0],
          negTerminal |-> [gridRow |-> 0, gridColumn |-> 0]]
    ELSE [hidden |-> FALSE,
          cells |-> S * P,
          parallelStrips |-> [k \in 1..S |-> [gridRow |-> k]],
          seriesStrips |-> [k \in 1..(S - 1) |-> gridSeriesStrip(k - 1, P)],
          posTerminal |-> [gridRow |-> 1, gridColumn |-> 1],
          negTerminal |-> [gridRow |-> S, gridColumn |-> endColumn(S, P)]]

---------------------------------------------------------------------------
(* State machine *)

InitPage ==
    /\ mounted = FALSE
    /\ series = 0
    /\ parallel = 0
    /\ cellType = "18650"
    /\ modelType = "enclosure"
    /\ wallThickness = 2000
    /\ tolerance = 500
    /\ isBuilding = TRUE
    /\ showBrackets = TRUE
    /\ isInitialized = FALSE
    /\ buildPending = FALSE
    /\ packGroup = <<>>
    /\ exportableMeshRef = NullObj
    /\ buildLog = NoBuild
    /\ lastExport = NoExport
    /\ live = {}

\* nothing rendered yet, the page outside App
Init == InitPage /\ app = NoApp

\* App renders ModelerPage with a pack configuration: first render of the
\* page and of ThreeScene, with the useState defaults.  (After an uncaught
\* exception of an effect React has removed the whole tree: nothing is
\* rendered any more.)
MountPage(S, P) ==
    /\ ~mounted
    /\ ~buildLog.threw
    /\ mounted' = TRUE
    /\ series' = S
    /\ parallel' = P
    /\ cellType' = "18650"
    /\ modelType' = "enclosure"
    /\ wallThickness' = 2000
    /\ tolerance' = 500
    /\ isBuilding' = TRUE
    /\ showBrackets' = TRUE
    /\ isInitialized' = FALSE
    /\ buildPending' = TRUE
    /\ packGroup' = <<>>
    /\ exportableMeshRef' = NullObj
    /\ buildLog' = NoBuild
    /\ lastExport' = NoExport
    /\ live' = {}

\* the page is rendered by a parent with any pack configuration
Mount(S, P) == MountPage(S, P) /\ UNCHANGED app

\* The pack building effect, whole.  The run that belongs to the first
\* render sees isInitialized = false and returns at once.  A run that
\* throws has torn the previous pack down and cleared the exportable mesh;
\* the exception is caught by no error boundary, so React unmounts the
\* tree (the cleanup of the initialisation effect cancels the animation).
PackBuildingEffect ==
    /\ mounted
    /\ buildPending
    /\ buildPending' = FALSE
    /\ lastExport' = NoExport
    /\ UNCHANGED app
    /\ IF ~isInitialized
       THEN UNCHANGED <<mounted, series, parallel, cellType, modelType, wallThickness,
                        tolerance, isBuilding, showBrackets, isInitialized, packGroup,
                        exportableMeshRef, buildLog, live>>
       ELSE IF Throws(series, parallel)
       THEN /\ buildLog' = BuildLog(Len(Teardown(packGroup)) < Len(packGroup), 0,
                                    CallsBuildComplete(series, parallel), TRUE)
            /\ packGroup' = <<>>
            /\ live' = live \ DisposedBy(Removed(packGroup))
            /\ exportableMeshRef' = ExportableFor(series, parallel, HOLDER_DIMENSIONS[cellType])
            /\ mounted' = FALSE
            /\ series' = 0
            /\ parallel' = 0
            /\ cellType' = "18650"
            /\ modelType' = "enclosure"
            /\ wallThickness' = 2000
            /\ tolerance' = 500
            /\ isBuilding' = TRUE
            /\ showBrackets' = TRUE
            /\ isInitialized' = FALSE
       ELSE /\ packGroup' = Teardown(packGroup)
                               \o AddedPack(series, parallel, CELL_DIMENSIONS[cellType],
                                            HOLDER_DIMENSIONS[cellType])
            /\ live' = (live \ DisposedBy(Removed(packGroup)))
                           \cup ResourcesOf(AddedPack(series, parallel,
                                                     CELL_DIMENSIONS[cellType],
                                                     HOLDER_DIMENSIONS[cellType]))
            /\ exportableMeshRef' = ExportableFor(series, parallel, HOLDER_DIMENSIONS[cellType])
            /\ buildLog' = BuildLog(Len(Teardown(packGroup)) < Len(packGroup),
                                    Len(AddedPack(series, parallel, CELL_DIMENSIONS[cellType],
                                                  HOLDER_DIMENSIONS[cellType])),
                                    CallsBuildComplete(series, parallel), FALSE)
            \* onBuildComplete = handleBuildComplete: setIsBuilding(false)
            /\ isBuilding' = (IF CallsBuildComplete(series, parallel) THEN FALSE
                                                                      ELSE isBuilding)
            /\ UNCHANGED <<mounted, series, parallel, cellType, modelType, wallThickness,
                           tolerance, showBrackets, isInitialized>>

\* The initialisation layout effect: creates the scene and the empty
\* packGroup, starts the animation loop, then setIsInitialized(true), which
\* re-renders and schedules the pack building effect again.
InitScene ==
    /\ mounted
    /\ ~isInitialized
    /\ ~buildPending
    /\ isInitialized' = TRUE
    /\ packGroup' = <<>>
    /\ buildPending' = TRUE
    /\ lastExport' = NoExport
    /\ UNCHANGED <<live, app>>
    /\ UNCHANGED <<mounted, series, parallel, cellType, modelType, wallThickness,
                   tolerance, isBuilding, showBrackets, exportableMeshRef, buildLog>>

\* the animation loop runs from the initialisation effect to its cleanup
AnimationRunning == mounted /\ isInitialized

\* One animation frame: animate requests the next frame and renders the
\* scene as it is; it writes nothing of the page or of the pack.  A frame
\* comes between any two other steps (an effect runs to completion on the
\* one thread), so it sees packGroup as the state it is taken in has it.
Animate ==
    /\ AnimationRunning
    /\ UNCHANGED vars

\* the page is idle: every scheduled effect has run
Idle == mounted /\ isInitialized /\ ~buildPending

\* Cell type button: setIsBuilding(true); setCellType(ct).  The effect is
\* scheduled only if its dependencies (the dimension objects) changed.
SelectCellType(ct) ==
    /\ Idle
    /\ isBuilding' = TRUE
    /\ cellType' = ct
    /\ buildPending' = (ct # cellType)
    /\ lastExport' = NoExport
    /\ UNCHANGED <<live, app>>
    /\ UNCHANGED <<mounted, series, parallel, modelType, wallThickness, tolerance,
                   showBrackets, isInitialized, packGroup, exportableMeshRef, buildLog>>

\* handleModelTypeChange
SetModelType(t) ==
    /\ Idle
    /\ modelType' = t
    /\ lastExport' = NoExport
    /\ UNCHANGED <<live, app>>
    /\ UNCHANGED <<mounted, series, parallel, cellType, wallThickness, tolerance,
                   isBuilding, showBrackets, isInitialized, buildPending, packGroup,
                   exportableMeshRef, buildLog>>

\* Wall Thickness input: onWallThicknessChange(parseFloat(value))
SetWallThickness(w) ==
    /\ Idle
    /\ modelType = "enclosure"
    /\ wallThickness' = w
    /\ lastExport' = NoExport
    /\ UNCHANGED <<live, app>>
    /\ UNCHANGED <<mounted, series, parallel, cellType, modelType, tolerance,
                   isBuilding, showBrackets, isInitialized, buildPending, packGroup,
                   exportableMeshRef, buildLog>>

\* Fit Tolerance input: onToleranceChange(parseFloat(value))
SetTolerance(t) ==
    /\ Idle
    /\ modelType = "enclosure"
    /\ tolerance' = t
    /\ lastExport' = NoExport
    /\ UNCHANGED <<live, app>>
    /\ UNCHANGED <<mounted, series, parallel, cellType, modelType, wallThickness,
                   isBuilding, showBrackets, isInitialized, buildPending, packGroup,
                   exportableMeshRef, buildLog>>

\* Brackets switch: setShowBrackets(!showBrackets).  ThreeScene takes no
\* such prop and dimensions does not depend on it.
ToggleBrackets ==
    /\ Idle
    /\ showBrackets' = ~showBrackets
    /\ lastExport' = NoExport
    /\ UNCHANGED <<live, app>>
    /\ UNCHANGED <<mounted, series, parallel, cellType, modelType, wallThickness,
                   tolerance, isBuilding, isInitialized, buildPending, packGroup,
                   exportableMeshRef, buildLog>>

\* The parent renders the page with another packConfig: the props series
\* and parallel of ThreeScene change, which schedules the effect.
ChangeTopology(S, P) ==
    /\ Idle
    /\ <<S, P>> # <<series, parallel>>
    /\ series' = S
    /\ parallel' = P
    /\ buildPending' = TRUE
    /\ lastExport' = NoExport
    /\ UNCHANGED <<live, app>>
    /\ UNCHANGED <<mounted, cellType, modelType, wallThickness, tolerance, isBuilding,
                   showBrackets, isInitialized, packGroup, exportableMeshRef, buildLog>>

\* STL button (disabled while isBuilding): handleExportSTL
ExportSTL ==
    /\ Idle
    /\ ~isBuilding
    /\ UNCHANGED <<live, app>>
    /\ lastExport' = ExportOutcome(modelType, cellType, series, parallel,
                                   wallThickness, tolerance, exportableMeshRef)
    /\ UNCHANGED <<mounted, series, parallel, cellType, modelType, wallThickness,
                   tolerance, isBuilding, showBrackets, isInitialized, buildPending,
                   packGroup, exportableMeshRef, buildLog>>

\* SVG button (disabled while isBuilding): handleExportSVG
ExportSVG ==
    /\ Idle
    /\ ~isBuilding
    /\ UNCHANGED <<live, app>>
    /\ lastExport' = SvgFile(modelType, cellType, series, parallel)
    /\ UNCHANGED <<mounted, series, parallel, cellType, modelType, wallThickness,
                   tolerance, isBuilding, showBrackets, isInitialized, buildPending,
                   packGroup, exportableMeshRef, buildLog>>

\* onBack: App unmounts the page; the component state is discarded.  The
\* cleanup of the initialisation effect disposes the controls and the
\* renderer; the pack building effect returns no cleanup, so no dispose()
\* reaches the geometries and materials of the pack.
UnmountPage ==
    /\ Idle
    /\ mounted' = FALSE
    /\ series' = 0
    /\ parallel' = 0
    /\ cellType' = "18650"
    /\ modelType' = "enclosure"
    /\ wallThickness' = 2000
    /\ tolerance' = 500
    /\ isBuilding' = TRUE
    /\ showBrackets' = TRUE
    /\ isInitialized' = FALSE
    /\ buildPending' = FALSE
    /\ packGroup' = <<>>
    /\ exportableMeshRef' = NullObj
    /\ buildLog' = NoBuild
    /\ lastExport' = NoExport
    /\ live' = live

\* the parent stops rendering the page
Unmount == UnmountPage /\ UNCHANGED app

Next ==
    \/ \E S \in SeriesInputs, P \in ParallelInputs : Mount(S, P)
    \/ InitScene
    \/ PackBuildingEffect
    \/ Animate
    \/ \E ct \in CellType : SelectCellType(ct)
    \/ \E t \in ModelType : SetModelType(t)
    \/ \E w \in WallThicknessInputs : SetWallThickness(w)
    \/ \E t \in ToleranceInputs : SetTolerance(t)
    \/ ToggleBrackets
    \/ \E S \in SeriesInputs, P \in ParallelInputs : ChangeTopology(S, P)
    \/ ExportSTL
    \/ ExportSVG
    \/ Unmount

Spec == Init /\ [][Next]_vars

---------------------------------------------------------------------------
(* The application: App, CalculatorPage and the modeler page *)

pageVars == <<mounted, series, parallel, cellType, modelType, wallThickness,
              tolerance, isBuilding, showBrackets, isInitialized, buildPending,
              packGroup, exportableMeshRef, buildLog, lastExport, live>>

\* the calculator is idle: the effect of the last render has run
CalculatorIdle == app.page = "calculator" /\ ~app.calcPending

\* useEffect(() => { calculatePack(); }, [calculatePack])
CalculatePackEffect ==
    /\ app.page = "calculator"
    /\ app.calcPending
    /\ app' = [app EXCEPT !.packConfig = calculatePack(app.desiredVoltage, app.desiredCapacity,
                                                       app.cellVoltage, app.cellCapacity),
                          !.calcPending = FALSE]
    /\ UNCHANGED pageVars

\* The four inputs: onChange={e => set...(parseFloat(e.target.value))}.
\* calculatePack is a useCallback of the four values: a changed value
\* re-renders and schedules the effect, an equal one (Object.is) does not.
SetDesiredVoltage(x) ==
    /\ CalculatorIdle
    /\ app' = [app EXCEPT !.desiredVoltage = x, !.calcPending = (x # app.desiredVoltage)]
    /\ UNCHANGED pageVars

SetDesiredCapacity(x) ==
    /\ CalculatorIdle
    /\ app' = [app EXCEPT !.desiredCapacity = x, !.calcPending = (x # app.desiredCapacity)]
    /\ UNCHANGED pageVars

SetCellVoltage(x) ==
    /\ CalculatorIdle
    /\ app' = [app EXCEPT !.cellVoltage = x, !.calcPending = (x # app.cellVoltage)]
    /\ UNCHANGED pageVars

SetCellCapacity(x) ==
    /\ CalculatorIdle
    /\ app' = [app EXCEPT !.cellCapacity = x, !.calcPending = (x # app.cellCapacity)]
    /\ UNCHANGED pageVars

\* "Visualize in 3D": the button is rendered only with a packConfig and is
\* disabled above 200 cells; onNavigateToModeler(packConfig) is
\* navigateToModeler: setModelerConfig(config); setPage('modeler').
NavigateToModeler ==
    /\ CalculatorIdle
    /\ app.packConfig # Null
    /\ ~(app.packConfig.totalCells > 200)
    /\ MountPage(app.packConfig.series, app.packConfig.parallel)
    /\ app' = ModelerShown(app.packConfig)

\* onBack = navigateToCalculator: setModelerConfig(null); setPage('calculator')
NavigateToCalculator ==
    /\ app.page = "modeler"
    /\ UnmountPage
    /\ app' = CalculatorMounted

AppInit == InitPage /\ app = CalculatorMounted

AppNext ==
    \/ CalculatePackEffect
    \/ \E x \in DesiredVoltageInputs : SetDesiredVoltage(x)
    \/ \E x \in DesiredCapacityInputs : SetDesiredCapacity(x)
    \/ \E x \in CellVoltageInputs : SetCellVoltage(x)
    \/ \E x \in CellCapacityInputs : SetCellCapacity(x)
    \/ NavigateToModeler
    \/ InitScene
    \/ PackBuildingEffect
    \/ Animate
    \/ \E ct \in CellType : SelectCellType(ct)
    \/ \E t \in ModelType : SetModelType(t)
    \/ \E w \in WallThicknessInputs : SetWallThickness(w)
    \/ \E t \in ToleranceInputs : SetTolerance(t)
    \/ ToggleBrackets
    \/ ExportSTL
    \/ ExportSVG
    \/ NavigateToCalculator

AppSpec == AppInit /\ [][AppNext]_vars

---------------------------------------------------------------------------
(* Progress of the effects *)

\* React runs every effect it has scheduled: the effect of the calculator,
\* the initialisation effect and the pack building effect are not postponed
\* forever.  Nothing obliges the user to act.
LiveSpec ==
    AppSpec /\ WF_vars(CalculatePackEffect) /\ WF_vars(InitScene) /\ WF_vars(PackBuildingEffect)

---------------------------------------------------------------------------
(* Properties of the pack build.                                           *)
(*                                                                         *)
(* In an Idle state every scheduled run of the pack building effect has    *)
(* completed, so packGroup holds the pack built for the current props.     *)

W == HOLDER_DIMENSIONS[cellType].outerWidth

D == HOLDER_DIMENSIONS[cellType].outerDepth

PackW == parallel * W

PackL == series * D

\* the two Y-planes, doubled: 2 * (cellHeight + stripThickness/2) and
\* 2 * (-stripThickness/2), with stripThickness = 0.5 mm
TopPlane2 == 2 * CELL_DIMENSIONS[cellType].height + 500

BottomPlane2 == -500

OfKind(k) == SelectSeq(packGroup, LAMBDA o : o.kind = k)

PackBuilt == Idle /\ series >= 1 /\ parallel >= 1

\* instance index of grid index (s, p) in the instanced meshes
Idx(s, p) == s * parallel + p + 1

CellPos(s, p) == OfKind("cellIM")[1].matrix[Idx(s, p)].position

FramePos(s, p) == OfKind("bracketAssembly")[1].children[1].matrix[Idx(s, p)].position

ParallelStripPos(s) == OfKind("parallelStrip")[s + 1].position

SeriesStripPos(s) == OfKind("seriesStrip")[s + 1].position

PosTerminalPos == OfKind("posTerminal")[1].position

NegTerminalPos == OfKind("negTerminal")[1].position

\* C1: for every S >= 1 and P >= 1 one pack build produces exactly S*P cell
\* instances, exactly S parallel strips, exactly max(S-1, 0) series strips
\* and exactly 2 terminals, one positive and one negative.
C1_BuildCounts ==
    PackBuilt =>
        /\ Len(OfKind("cellIM")) = 1
        /\ Len(OfKind("cellIM")[1].matrix) = series * parallel
        /\ Len(OfKind("parallelStrip")) = series
        /\ Len(OfKind("seriesStrip")) = (IF series - 1 > 0 THEN series - 1 ELSE 0)
        /\ Len(OfKind("posTerminal")) = 1
        /\ Len(OfKind("negTerminal")) = 1
        /\ Len(OfKind("bracketAssembly")) = 1
        /\ Len(packGroup) = 2 + series + (IF series - 1 > 0 THEN series - 1 ELSE 0) + 2

C1_Witness ==
    /\ PackBuilt
    /\ series = 3
    /\ parallel = 2
    /\ Len(OfKind("cellIM")[1].matrix) = 6
    /\ Len(OfKind("seriesStrip")) = 2

\* C2: for every S, P >= 1 the cell and the holder at grid index (s, p) are
\* centred at x = p*outerWidth - packWidth/2 + outerWidth/2 and
\* z = s*outerDepth - packLength/2 + outerDepth/2; the holder footprints
\* (outerWidth x outerDepth) tile [-packWidth/2, packWidth/2] x
\* [-packLength/2, packLength/2] exactly: the first footprint starts at the
\* lower edge, the last ends at the upper edge, adjacent footprints share
\* an edge, and the grid is symmetric about the origin.  (Coordinates are
\* compared doubled, so no half is rounded.)
C2_GridTiling ==
    PackBuilt =>
        \A s \in 0..(series - 1), p \in 0..(parallel - 1) :
            LET x == FramePos(s, p)[1]
                z == FramePos(s, p)[3]
            IN  /\ 2 * x = 2 * p * W - PackW + W
                /\ 2 * z = 2 * s * D - PackL + D
                /\ CellPos(s, p)[1] = x
                /\ CellPos(s, p)[3] = z
                /\ (p = 0) => (2 * x - W = -PackW)
                /\ (p = parallel - 1) => (2 * x + W = PackW)
                /\ (p < parallel - 1) => (2 * x + W = 2 * FramePos(s, p + 1)[1] - W)
                /\ (s = 0) => (2 * z - D = -PackL)
                /\ (s = series - 1) => (2 * z + D = PackL)
                /\ (s < series - 1) => (2 * z + D = 2 * FramePos(s + 1, p)[3] - D)
                /\ x + FramePos(s, parallel - 1 - p)[1] = 0
                /\ z + FramePos(series - 1 - s, p)[3] = 0

C2_Witness ==
    /\ PackBuilt
    /\ series = 2
    /\ parallel = 3
    /\ 2 * FramePos(0, 0)[1] + W = 2 * FramePos(0, 1)[1] - W
    /\ 2 * FramePos(1, 2)[1] + W = PackW


\* x of the rightmost and of the leftmost column, doubled
RightX2 == PackW - W

LeftX2 == -PackW + W

\* z of the centre of row r, doubled
RowZ2(r) == 2 * r * D - PackL + D

SeriesBuilt == PackBuilt /\ series >= 2

\* C3 as stated: for every S >= 2 and boundary s in 0..S-2 the series strip
\* is at the rightmost column if and only if s is even, otherwise at the
\* leftmost column, and its z is the boundary between rows s and s+1,
\* midway between the two row centres; the end strictly alternates between
\* consecutive boundaries.
C3_Original ==
    SeriesBuilt =>
        \A s \in 0..(series - 2) :
            /\ (2 * SeriesStripPos(s)[1] = RightX2) <=> (s % 2 = 0)
            /\ (s % 2 # 0) => (2 * SeriesStripPos(s)[1] = LeftX2)
            /\ 4 * SeriesStripPos(s)[3] = RowZ2(s) + RowZ2(s + 1)
            /\ (s < series - 2) => (SeriesStripPos(s)[1] # SeriesStripPos(s + 1)[1])

\* C3 amended: for every S >= 2 and boundary s the series strip is at
\* x = +packWidth/2 - outerWidth/2 if s is even and at
\* x = -packWidth/2 + outerWidth/2 if s is odd, and its z is the boundary
\* between rows s and s+1; when P >= 2 these are two distinct columns, so
\* the strip is at the rightmost column iff s is even and the end strictly
\* alternates; when P = 1 both are the single column x = 0.
C3_SeriesStripColumn ==
    SeriesBuilt =>
        \A s \in 0..(series - 2) :
            /\ (s % 2 = 0) => (2 * SeriesStripPos(s)[1] = RightX2)
            /\ (s % 2 # 0) => (2 * SeriesStripPos(s)[1] = LeftX2)
            /\ 4 * SeriesStripPos(s)[3] = RowZ2(s) + RowZ2(s + 1)
            /\ 2 * SeriesStripPos(s)[3] = 2 * FramePos(s, 0)[3] + D
            /\ 2 * SeriesStripPos(s)[3] = 2 * FramePos(s + 1, 0)[3] - D
            /\ (parallel >= 2) =>
                  /\ (2 * SeriesStripPos(s)[1] = RightX2) <=> (s % 2 = 0)
                  /\ (s < series - 2) => (SeriesStripPos(s)[1] # SeriesStripPos(s + 1)[1])
            /\ (parallel = 1) => (SeriesStripPos(s)[1] = 0)

C3_Witness ==
    /\ SeriesBuilt
    /\ series = 3
    /\ parallel = 3
    /\ 2 * SeriesStripPos(0)[1] = RightX2
    /\ 2 * SeriesStripPos(1)[1] = LeftX2
    /\ RightX2 # LeftX2

Higher(a, b) == IF a >= b THEN a ELSE b

Lower(a, b) == IF a <= b THEN a ELSE b

NegColumn == IF (series - 1) % 2 = 0 THEN parallel - 1 ELSE 0

\* C6: for all S, P >= 1 the positive terminal is at the position of
\* (row 0, column 0) on the top Y-plane, and the negative terminal is at row
\* S-1, at column P-1 if (S-1) is even and at column 0 otherwise, on the
\* Y-plane given by the parity of row S-1 (top if even, bottom if odd).
C6_TerminalPlacement ==
    PackBuilt =>
        /\ PosTerminalPos[1] = CellPos(0, 0)[1]
        /\ PosTerminalPos[3] = CellPos(0, 0)[3]
        /\ 2 * PosTerminalPos[2] = TopPlane2
        /\ NegTerminalPos[1] = CellPos(series - 1, NegColumn)[1]
        /\ NegTerminalPos[3] = CellPos(series - 1, NegColumn)[3]
        /\ 2 * NegTerminalPos[2] = (IF (series - 1) % 2 = 0 THEN TopPlane2 ELSE BottomPlane2)
        /\ NegTerminalPos[2] = ParallelStripPos(series - 1)[2]

C6_Witness ==
    /\ PackBuilt
    /\ series = 2
    /\ parallel = 3
    /\ NegTerminalPos[1] = CellPos(1, 0)[1]
    /\ NegTerminalPos[1] # CellPos(1, 2)[1]
    /\ 2 * NegTerminalPos[2] = BottomPlane2

SingleRowBuilt == PackBuilt /\ series = 1

\* C7 as stated: when S = 1, for every P >= 1, the build has zero series
\* strips and the positive and negative terminals are placed at opposite
\* physical columns of the single row: two distinct positions on the same
\* Y-plane.
C7_Original ==
    SingleRowBuilt =>
        /\ Len(OfKind("seriesStrip")) = 0
        /\ PosTerminalPos[1] = CellPos(0, 0)[1]
        /\ NegTerminalPos[1] = CellPos(0, parallel - 1)[1]
        /\ PosTerminalPos[2] = NegTerminalPos[2]
        /\ PosTerminalPos[3] = NegTerminalPos[3]
        /\ PosTerminalPos # NegTerminalPos

\* C7 amended: when S = 1, for every P >= 1, the build has zero series
\* strips and the terminals are on the same Y-plane of the single row, the
\* positive one at column 0 and the negative one at column P-1; these are
\* opposite columns and two distinct positions when P >= 2, and one and the
\* same position when P = 1.
C7_SingleRowTerminals ==
    SingleRowBuilt =>
        /\ Len(OfKind("seriesStrip")) = 0
        /\ PosTerminalPos[1] = CellPos(0, 0)[1]
        /\ NegTerminalPos[1] = CellPos(0, parallel - 1)[1]
        /\ PosTerminalPos[2] = NegTerminalPos[2]
        /\ PosTerminalPos[3] = NegTerminalPos[3]
        /\ (parallel >= 2) =>
              /\ PosTerminalPos # NegTerminalPos
              /\ PosTerminalPos[1] + NegTerminalPos[1] = 0
        /\ (parallel = 1) => (PosTerminalPos = NegTerminalPos)

C7_Witness ==
    /\ SingleRowBuilt
    /\ parallel = 3
    /\ 2 * PosTerminalPos[1] = LeftX2
    /\ 2 * NegTerminalPos[1] = RightX2
    /\ PosTerminalPos # NegTerminalPos

\* x at which the snake path enters row r: the positive terminal for row 0,
\* the series strip at boundary r-1 otherwise
EntryX(r) == IF r = 0 THEN PosTerminalPos[1] ELSE SeriesStripPos(r - 1)[1]

\* x at which the path leaves row r: the series strip at boundary r, the
\* negative terminal for row S-1
ExitX(r) == IF r = series - 1 THEN NegTerminalPos[1] ELSE SeriesStripPos(r)[1]

\* C8: for all S, P >= 1 the terminals and series strips form one unbroken
\* snake path: it starts at the positive terminal in row 0 / column 0,
\* every row r is entered at the column of the series strip at boundary
\* r-1 and left at the opposite end of the row, where the series strip at
\* boundary r sits, and the negative terminal sits at the end of row S-1
\* opposite to the series strip that enters that row.  (The opposite end of
\* the column at x is the column at -x; both ends are the outermost
\* columns.)
C8_SnakePath ==
    PackBuilt =>
        /\ PosTerminalPos[1] = CellPos(0, 0)[1]
        /\ PosTerminalPos[3] = CellPos(0, 0)[3]
        /\ NegTerminalPos[3] = CellPos(series - 1, 0)[3]
        /\ \A r \in 0..(series - 1) :
              /\ ExitX(r) = -EntryX(r)
              /\ 2 * EntryX(r) \in {LeftX2, RightX2}
              /\ 2 * ExitX(r) \in {LeftX2, RightX2}
        /\ \A s \in 0..(series - 2) :
              /\ 2 * SeriesStripPos(s)[3] = 2 * CellPos(s, 0)[3] + D
              /\ 2 * SeriesStripPos(s)[3] = 2 * CellPos(s + 1, 0)[3] - D

C8_Witness ==
    /\ PackBuilt
    /\ series = 3
    /\ parallel = 2
    /\ 2 * EntryX(0) = LeftX2
    /\ 2 * ExitX(0) = RightX2
    /\ 2 * EntryX(1) = RightX2
    /\ 2 * ExitX(1) = LeftX2
    /\ 2 * EntryX(2) = LeftX2
    /\ 2 * ExitX(2) = RightX2
    /\ ExitX(2) = NegTerminalPos[1]

---------------------------------------------------------------------------
(* Properties of the empty pack *)

\* C9: if S = 0 or P = 0, an STL export call, in either export mode
\* (enclosure or brackets), reports the "no geometry" error and produces no
\* file.
C9_EmptyExportFails ==
    (lastExport.outcome \in {"alert", "file"}
        /\ (lastExport.series = 0 \/ lastExport.parallel = 0)) =>
        /\ lastExport.outcome = "alert"
        /\ lastExport.fileName = <<>>

\* C10: when S*P = 0 the pack build completes without error: every object
\* of the previous pack is removed, no cell, bracket, strip or terminal is
\* created, the exportable mesh is cleared, and the build-complete callback
\* is still invoked.
C10_EmptyBuild ==
    (Idle /\ series * parallel = 0) =>
        /\ buildLog.ran
        /\ packGroup = <<>>
        /\ buildLog.created = 0
        /\ exportableMeshRef = NullObj
        /\ buildLog.completed

C10_Witness ==
    /\ Idle
    /\ series * parallel = 0
    /\ buildLog.removed
    /\ buildLog.completed
    /\ packGroup = <<>>
    /\ ~isBuilding


---------------------------------------------------------------------------
(* Properties of the layout build on invalid topologies *)

\* the cell count above which BatteryGrid renders a message instead of the
\* cells and CalculatorPage disables the way to the modeler
InvalidTopology ==
    series < 1 \/ parallel < 1 \/ series * parallel > MAX_CELLS_TO_RENDER

\* C11: for any topology with series < 1 or parallel < 1 (negative counts
\* included), or with a cell count above the render-safety ceiling, the
\* layout build returns the "no geometry" result: no instance of any kind
\* is created (the pack group stays empty and nothing is exportable).
C11_InvalidTopologyNoGeometry ==
    (Idle /\ buildLog.ran /\ InvalidTopology) =>
        /\ packGroup = <<>>
        /\ buildLog.created = 0
        /\ exportableMeshRef = NullObj

---------------------------------------------------------------------------
(* Properties of the enclosure export *)

ExportedEnclosure == lastExport.outcome = "file" /\ lastExport.mode = "enclosure"

Abs(n) == IF n < 0 THEN -n ELSE n

\* lower and upper face of a panel along an axis, doubled (1 = x, the
\* width; 2 = y, the length; 3 = z, the height)
Lo2(o, axis) == 2 * o.position[axis] - Abs(o.size[axis])

Hi2(o, axis) == 2 * o.position[axis] + Abs(o.size[axis])

SetMin(ns) == CHOOSE n \in ns : \A m \in ns : n <= m

SetMax(ns) == CHOOSE n \in ns : \A m \in ns : n >= m

\* the box of an enclosure group: its first five panels; the sixth is the lid
BoxLo2(g, axis) == SetMin({Lo2(g.children[k], axis) : k \in 1..5})

BoxHi2(g, axis) == SetMax({Hi2(g.children[k], axis) : k \in 1..5})

\* outer size of the box along an axis
BoxExtent(g, axis) == (BoxHi2(g, axis) - BoxLo2(g, axis)) \div 2

\* the bounding box of the example, 44.8 x 89.6 x 81.2, and the outer size
\* of its enclosure with wall 2 and tolerance 0.5
ExampleBox == [length |-> 89600, width |-> 44800, height |-> 81200]

ExampleOuter == [axis \in 1..3 |-> BoxExtent(EnclosureGroup(ExampleBox, 2000, 500), axis)]

\* C12: for any wallThickness > 0 and tolerance >= 0 the exported enclosure
\* has outerWidth = packWidth + 2*tolerance + 2*wallThickness, outerLength =
\* packLength + 2*tolerance + 2*wallThickness and outerHeight = packHeight +
\* 2*tolerance + wallThickness (one wall thickness in height), packWidth,
\* packLength and packHeight being the sides of the bounding box the export
\* is given (sides not negative); a 44.8 x 89.6 x 81.2 box with wall 2 and
\* tolerance 0.5 gives 49.8 x 94.6 x 84.2.
C12_EnclosureOuterSize ==
    /\ (ExportedEnclosure /\ wallThickness > 0 /\ tolerance >= 0
            /\ series >= 0 /\ parallel >= 0) =>
          /\ BoxExtent(lastExport.mesh, 1) = PackW + 2 * tolerance + 2 * wallThickness
          /\ BoxExtent(lastExport.mesh, 2) = PackL + 2 * tolerance + 2 * wallThickness
          /\ BoxExtent(lastExport.mesh, 3) =
                dimensions(cellType, series, parallel).height + 2 * tolerance + wallThickness
    /\ ExampleOuter = <<49800, 94600, 84200>>

C12_Witness ==
    /\ ExportedEnclosure
    /\ wallThickness = 1000
    /\ tolerance = 0
    /\ series = 2
    /\ parallel = 3
    /\ cellType = "21700"
    /\ BoxExtent(lastExport.mesh, 1) = 3 * 25200 + 2000
    /\ BoxExtent(lastExport.mesh, 3) = 70300 + 1000

\* the pack height the exported enclosure was sized from: the height of its
\* walls less the tolerance on both sides
SizedFromHeight == lastExport.mesh.children[2].size[3] - 2 * tolerance

\* C13: the pack bounding-box height from which the enclosure is sized is
\* cell height + 2 x bracketHeight (bracketHeight = 8 mm) whenever brackets
\* are included (show-brackets on), and the bare cell height only when they
\* are not.  (Stated for the packs of at least one cell.)
C13_BracketHeightInBoundingBox ==
    (ExportedEnclosure /\ series >= 1 /\ parallel >= 1) =>
        SizedFromHeight =
            (IF showBrackets THEN CELL_DIMENSIONS[cellType].height + 2 * bracketHeight
                             ELSE CELL_DIMENSIONS[cellType].height)

\* C14: if wallThickness <= 0 or tolerance < 0, the enclosure export rejects
\* the configuration: no enclosure geometry is built and no file is
\* produced.  (Stated for the packs of at least one cell.)
C14_InvalidEnclosureRejected ==
    (lastExport.outcome \in {"alert", "file"} /\ lastExport.mode = "enclosure"
        /\ series >= 1 /\ parallel >= 1
        /\ (wallThickness <= 0 \/ tolerance < 0)) =>
        /\ lastExport.outcome = "alert"
        /\ lastExport.mesh = NullObj
        /\ lastExport.fileName = <<>>

\* C15: the enclosure export consists of exactly six panels (bottom plate,
\* front, back, left and right walls, and one lid), and the lid is
\* translated laterally by outerWidth + 10 mm so that, for every positive
\* outerWidth, the footprint of the lid does not overlap the footprint of
\* the box: the gap between them is exactly 10 mm.
C15_SixPanelsLidApart ==
    ExportedEnclosure =>
        LET g == lastExport.mesh
            outerWidth == g.children[1].size[1]
        IN  /\ Len(g.children) = 6
            /\ [k \in 1..6 |-> g.children[k].kind]
                   = <<"bottom", "frontWall", "backWall", "leftWall", "rightWall", "top">>
            /\ g.children[6].position[1] = outerWidth + 10000
            /\ g.children[6].size = g.children[1].size
            /\ (outerWidth > 0) =>
                  /\ Lo2(g.children[6], 1) > BoxHi2(g, 1)
                  /\ Lo2(g.children[6], 1) - BoxHi2(g, 1) = 2 * 10000

C15_Witness ==
    /\ ExportedEnclosure
    /\ series = 1
    /\ parallel = 2
    /\ wallThickness = 2000
    /\ tolerance = 500
    /\ lastExport.mesh.children[1].size[1] = 2 * W + 5000
    /\ Lo2(lastExport.mesh.children[6], 1) - BoxHi2(lastExport.mesh, 1) = 20000

---------------------------------------------------------------------------
(* Properties of the bracket export *)

ExportedBrackets == lastExport.outcome = "file" /\ lastExport.mode = "bracket"

\* C16: the bracket-mode export object contains one transformed geometry per
\* instance: for an S x P pack, 3*S*P triangle sets (frame, right tooth and
\* top tooth per cell), each with its instance transform baked in, and no
\* instanced mesh (an object with per-instance matrices) remains in what
\* getExportableMesh hands to the serializer.  (Stated for the packs of at
\* least one cell.)
C16_BracketExportBaked ==
    (ExportedBrackets /\ series >= 1 /\ parallel >= 1) =>
        /\ Len(lastExport.mesh.children) = 3 * series * parallel
        /\ \A k \in 1..Len(lastExport.mesh.children) :
              lastExport.mesh.children[k].matrix = <<>>

---------------------------------------------------------------------------
(* Properties of the SVG export *)

ExportedSvg == lastExport.outcome = "svg"

\* C17: for all S, P and every cell family the width, the height and the
\* viewBox of the SVG drawing equal (P*outerWidth + 2*padding) x
\* (S*outerDepth + 2*padding) exactly, with padding = 20 and width and
\* height tagged in millimetres.
C17_SvgViewport ==
    ExportedSvg =>
        /\ lastExport.svg.width = <<PackW + 2 * 20000, "mm">>
        /\ lastExport.svg.height = <<PackL + 2 * 20000, "mm">>
        /\ lastExport.svg.viewBox = <<0, 0, PackW + 2 * 20000, PackL + 2 * 20000>>

C17_Witness ==
    /\ ExportedSvg
    /\ series = 2
    /\ parallel = 3
    /\ cellType = "26650"
    /\ lastExport.svg.width = <<130900, "mm">>
    /\ lastExport.svg.height = <<100600, "mm">>

\* C18: for every (s,p) in [0,S) x [0,P) the SVG contains exactly one
\* circle of radius CellSpec.diameter/2 and exactly one rectangle of
\* outerWidth x outerDepth with origin (p*outerWidth, s*outerDepth); the
\* circle is centred in its rectangle, and its centre equals the cell centre
\* (x, z) of the 3D layout for the same (s,p) shifted by (packWidth/2,
\* packLength/2).  (One circle and one rectangle per grid index, S*P of each
\* in all, none when a count is below 1; halves compared doubled.)
C18_SvgCellsMatchLayout ==
    ExportedSvg =>
        LET circles == lastExport.svg.circles
            rects   == lastExport.svg.rects
        IN  /\ (series < 1 \/ parallel < 1) => (circles = <<>> /\ rects = <<>>)
            /\ (series >= 1 /\ parallel >= 1) =>
                  /\ Len(circles) = series * parallel
                  /\ Len(rects) = series * parallel
                  /\ \A s \in 0..(series - 1), p \in 0..(parallel - 1) :
                        LET c == circles[Idx(s, p)]
                            r == rects[Idx(s, p)]
                        IN  /\ 2 * c.r = CELL_DIMENSIONS[cellType].diameter
                            /\ r = [x |-> p * W, y |-> s * D, width |-> W, height |-> D]
                            /\ 2 * c.cx = 2 * r.x + r.width
                            /\ 2 * c.cy = 2 * r.y + r.height
                            /\ 2 * c.cx = 2 * CellPos(s, p)[1] + PackW
                            /\ 2 * c.cy = 2 * CellPos(s, p)[3] + PackL
                  /\ \A i, j \in 1..Len(circles) :
                        (i # j) => (<<circles[i].cx, circles[i].cy>> # <<circles[j].cx, circles[j].cy>>
                                    /\ <<rects[i].x, rects[i].y>> # <<rects[j].x, rects[j].y>>)

C18_Witness ==
    /\ ExportedSvg
    /\ series = 2
    /\ parallel = 3
    /\ cellType = "18650"
    /\ Len(lastExport.svg.circles) = 6
    /\ lastExport.svg.circles[6] = [cx |-> 56000, cy |-> 33600, r |-> 9250]
    /\ CellPos(1, 2) = <<22400, 0, 11200>>

---------------------------------------------------------------------------
(* Properties of the rebuild *)

\* the pack and the exportable mesh as functions of the current inputs
PackOf(S, P, ct) == AddedPack(S, P, CELL_DIMENSIONS[ct], HOLDER_DIMENSIONS[ct])

\* C19: the instance set after a rebuild is a function of the current
\* inputs only: whatever sequence of parameter changes and rebuilds came
\* before, the pack group and the exportable mesh after a build with
\* (S, P, CellSpec, HolderSpec) are the ones these inputs determine, so two
\* builds with identical inputs yield identical instance counts and
\* transforms (nothing of an earlier generation is carried over).
C19_BuildDeterministic ==
    (Idle /\ buildLog.ran) =>
        /\ packGroup = PackOf(series, parallel, cellType)
        /\ exportableMeshRef = ExportableFor(series, parallel, HOLDER_DIMENSIONS[cellType])
        /\ Len(packGroup) = buildLog.created

C19_Witness ==
    /\ Idle
    /\ buildLog.ran
    /\ buildLog.removed
    /\ series = 2
    /\ parallel = 2
    /\ cellType = "21700"
    /\ packGroup = PackOf(2, 2, "21700")
    /\ Len(packGroup) = 7

\* every complete generation: the pack of some inputs
Generations ==
    {PackOf(S, P, ct) : S \in SeriesInputs, P \in ParallelInputs, ct \in CellType}

\* C20: the render loop never observes a partially rebuilt pack: at every
\* frame callback (any state in which the animation loop runs) the pack
\* group holds either the complete previous generation or the complete new
\* generation, never a group emptied of a generation that had objects, a
\* mixture of generations or a half-populated instance set.
C20_FramesSeeCompleteGeneration ==
    AnimationRunning =>
        /\ packGroup \in Generations
        /\ Len(packGroup) = buildLog.created
        /\ (~buildPending /\ buildLog.ran) => (packGroup = PackOf(series, parallel, cellType))
        /\ \A k \in 1..Len(packGroup) :
              /\ Len(packGroup[k].matrix) \in {0, Len(packGroup[1].matrix)}
              /\ \A c \in 1..Len(packGroup[k].children) :
                    Len(packGroup[k].children[c].matrix) = Len(packGroup[1].matrix)

C20_Witness ==
    /\ AnimationRunning
    /\ buildPending
    /\ buildLog.ran
    /\ series = 3
    /\ parallel = 3
    /\ packGroup # <<>>
    /\ packGroup # PackOf(series, parallel, cellType)
    /\ packGroup \in Generations

---------------------------------------------------------------------------
(* Disposal of the pack's geometries and materials *)

\* C21: whenever the pack building effect has returned (from its end or
\* from the early return of the empty pack), packGroup holds the objects of
\* the current generation only, and the only geometries and materials not
\* disposed are those of these objects: every object of the previous
\* generation was removed and its geometry and material disposed.
C21_TeardownDisposesPrevious ==
    (mounted /\ buildLog.ran /\ ~buildPending) =>
        /\ packGroup = AddedPack(series, parallel, CELL_DIMENSIONS[cellType],
                                 HOLDER_DIMENSIONS[cellType])
        /\ Len(packGroup) = buildLog.created
        /\ live = ResourcesOf(packGroup)

\* a run tore a built pack down and left by the early return of the empty
\* pack: nothing is left in the group, nothing is left undisposed
C21_Witness ==
    /\ Idle
    /\ buildLog.removed
    /\ totalCells(series, parallel) = 0
    /\ packGroup = <<>>
    /\ live = {}

\* C22: once the page has unmounted, no geometry and no material of the
\* last built pack is left undisposed.
C22_UnmountDisposesPack == ~mounted => live = {}

---------------------------------------------------------------------------
(* The catalog *)

\* the frame of the holder of family ct is wider and deeper than its hole
HolderHasRim(ct) ==
    /\ HOLDER_DIMENSIONS[ct].outerWidth > HOLDER_DIMENSIONS[ct].holeDiameter
    /\ HOLDER_DIMENSIONS[ct].outerDepth > HOLDER_DIMENSIONS[ct].holeDiameter

---------------------------------------------------------------------------
(* The pack inside the cavity of the enclosure *)

\* size of a placed box along a scene axis (1 = x, 3 = z): a rotation of
\* 90 degrees about Y exchanges the two horizontal sizes
SizeAlong(size, rotY, axis) ==
    IF rotY = 90 THEN (IF axis = 1 THEN size[3] ELSE IF axis = 3 THEN size[1] ELSE size[2])
                 ELSE size[axis]

\* the instances of an instanced mesh, each with its placement and the
\* size of the geometry
InstancesOf(im) ==
    {[position |-> im.matrix[i].position, rotY |-> im.matrix[i].rotY, size |-> im.size] :
        i \in 1..Len(im.matrix)}

\* cells, holder frames and teeth of a built pack: the cell mesh and the
\* three meshes of the bracket assembly
PlacedInstances(children) ==
    InstancesOf(children[1]) \cup
    UNION {InstancesOf(children[2].children[k]) : k \in 1..Len(children[2].children)}

\* An instance lies in the cavity of enclosure g with clearance tol on the
\* four sides.  The width of the enclosure runs along x of the scene and
\* its length (y of the panels) along z of the scene, both centred; the
\* cavity lies between the inner faces of the left and right wall and of
\* the back and front wall.  Faces doubled, as Lo2 and Hi2.
InsideWithClearance(inst, g, tol) ==
    /\ 2 * inst.position[1] - SizeAlong(inst.size, inst.rotY, 1) >= Hi2(g.children[4], 1) + 2 * tol
    /\ 2 * inst.position[1] + SizeAlong(inst.size, inst.rotY, 1) <= Lo2(g.children[5], 1) - 2 * tol
    /\ 2 * inst.position[3] - SizeAlong(inst.size, inst.rotY, 3) >= Hi2(g.children[3], 2) + 2 * tol
    /\ 2 * inst.position[3] + SizeAlong(inst.size, inst.rotY, 3) <= Lo2(g.children[2], 2) - 2 * tol

\* C24: for S, P >= 1, any family, wall thickness > 0 and tolerance >= 0,
\* every cell, holder frame and tooth of the pack in the scene lies inside
\* the cavity of the exported enclosure with at least the fit tolerance of
\* clearance on each of the four sides (stated for the horizontal plane;
\* the claim adds the height).
C24_CavityContainsPack ==
    (/\ ExportedEnclosure
     /\ series >= 1 /\ parallel >= 1
     /\ wallThickness > 0 /\ tolerance >= 0
     /\ Len(packGroup) >= 2) =>
        \A inst \in PlacedInstances(packGroup) :
            InsideWithClearance(inst, lastExport.mesh, tolerance)

---------------------------------------------------------------------------
(* The five panels of the box *)

\* inner size of the enclosure the page computes (doubled, as the faces)
Inner2(axis) ==
    2 * (CASE axis = 1 -> dimensions(cellType, series, parallel).width + tolerance * 2
           [] axis = 2 -> dimensions(cellType, series, parallel).length + tolerance * 2
           [] axis = 3 -> dimensions(cellType, series, parallel).height + tolerance * 2)

\* two panels overlap: their boxes share volume
Overlap(a, b) == \A axis \in 1..3 : Lo2(a, axis) < Hi2(b, axis) /\ Lo2(b, axis) < Hi2(a, axis)

\* C30: for any wallThickness > 0 and tolerance >= 0 (S, P >= 1) the five
\* panels of the exported box fit without overlap and without gap: the left
\* and right wall span exactly the inner length between the inner faces of
\* the back and front wall; the four walls enclose a cavity of exactly
\* innerWidth x innerLength; the walls start at the top face of the bottom
\* plate and end at +outerHeight/2; no two panels overlap; and the box is
\* exactly outerWidth x outerLength x outerHeight.
C30_PanelsFit ==
    (ExportedEnclosure /\ wallThickness > 0 /\ tolerance >= 0
                       /\ series >= 1 /\ parallel >= 1) =>
        LET g      == lastExport.mesh
            bottom == g.children[1]
            front  == g.children[2]
            back   == g.children[3]
            left   == g.children[4]
            right  == g.children[5]
            walls  == {front, back, left, right}
        IN  /\ \A w \in {left, right} :
                  Lo2(w, 2) = Hi2(back, 2) /\ Hi2(w, 2) = Lo2(front, 2)
            /\ Lo2(right, 1) - Hi2(left, 1) = Inner2(1)
            /\ Lo2(front, 2) - Hi2(back, 2) = Inner2(2)
            /\ Hi2(left, 1) = -Lo2(right, 1) /\ Hi2(back, 2) = -Lo2(front, 2)
            /\ \A w \in {front, back} :
                  Lo2(w, 1) = Lo2(left, 1) /\ Hi2(w, 1) = Hi2(right, 1)
            /\ \A w \in walls :
                  /\ Lo2(w, 3) = Hi2(bottom, 3)
                  /\ 2 * Hi2(w, 3) = Inner2(3) + 2 * wallThickness
                  /\ Hi2(w, 3) = -Lo2(bottom, 3)
            /\ \A k, l \in 1..5 : k # l => ~Overlap(g.children[k], g.children[l])
            /\ BoxExtent(g, 1) * 2 = Inner2(1) + 4 * wallThickness
            /\ BoxExtent(g, 2) * 2 = Inner2(2) + 4 * wallThickness
            /\ BoxExtent(g, 3) * 2 = Inner2(3) + 2 * wallThickness
            /\ Lo2(bottom, 1) = BoxLo2(g, 1) /\ Hi2(bottom, 1) = BoxHi2(g, 1)
            /\ Lo2(bottom, 2) = BoxLo2(g, 2) /\ Hi2(bottom, 2) = BoxHi2(g, 2)

\* an enclosure of a pack of several rows and columns was exported with a
\* wall and a tolerance other than the defaults
C30_Witness ==
    /\ ExportedEnclosure
    /\ series >= 2 /\ parallel >= 2
    /\ wallThickness = 1000
    /\ tolerance = 0
    /\ Len(lastExport.mesh.children) = 6

---------------------------------------------------------------------------
(* The 2D grid and the 3D scene *)

\* grid column (from 1) of the cells of the scene that have this x, and
\* grid row of those that have this z
Column3D(x) == CHOOSE c \in 1..parallel : CellPos(0, c - 1)[1] = x

Row3D(z) == CHOOSE r \in 1..series : CellPos(r - 1, 0)[3] = z

\* Both views place the series strip of boundary s between the same two
\* rows and in the same column, the negative terminal in the same row and
\* column, and the positive terminal in row 1, column 1.
ViewsAgree ==
    /\ ~BatteryGrid(series, parallel).hidden
    /\ Len(BatteryGrid(series, parallel).seriesStrips) = Len(OfKind("seriesStrip"))
    /\ \A s \in 0..(series - 2) :
          /\ BatteryGrid(series, parallel).seriesStrips[s + 1].gridRow = s + 1
          /\ BatteryGrid(series, parallel).seriesStrips[s + 1].span = 2
          /\ 2 * SeriesStripPos(s)[3] = CellPos(s, 0)[3] + CellPos(s + 1, 0)[3]
          /\ BatteryGrid(series, parallel).seriesStrips[s + 1].gridColumn
                = Column3D(SeriesStripPos(s)[1])
    /\ BatteryGrid(series, parallel).negTerminal.gridRow = Row3D(NegTerminalPos[3])
    /\ BatteryGrid(series, parallel).negTerminal.gridColumn = Column3D(NegTerminalPos[1])
    /\ BatteryGrid(series, parallel).posTerminal.gridRow = Row3D(PosTerminalPos[3])
    /\ BatteryGrid(series, parallel).posTerminal.gridColumn = Column3D(PosTerminalPos[1])
    /\ BatteryGrid(series, parallel).posTerminal = [gridRow |-> 1, gridColumn |-> 1]
    /\ BatteryGrid(series, parallel).negTerminal.gridRow = series

\* C29 as stated: for all S, P >= 1 the two views agree, and in both the
\* series strip joining rows s and s+1 is in the last column if and only if
\* s is even, and the negative terminal is in the last column of the last
\* row if and only if S is odd.
C29_Original ==
    PackBuilt =>
        /\ ViewsAgree
        /\ \A s \in 0..(series - 2) :
              /\ (BatteryGrid(series, parallel).seriesStrips[s + 1].gridColumn = parallel)
                    <=> (s % 2 = 0)
              /\ (Column3D(SeriesStripPos(s)[1]) = parallel) <=> (s % 2 = 0)
        /\ (BatteryGrid(series, parallel).negTerminal.gridColumn = parallel)
              <=> (series % 2 # 0)
        /\ (Column3D(NegTerminalPos[1]) = parallel) <=> (series % 2 # 0)

\* C29, amended: for all S, P >= 1 the two views agree on the row pair and
\* the column of every series strip and on the row and column of both
\* terminals (the positive one at row 1, column 1); in both, the strip of
\* boundary s is in column P when s is even and in column 1 when s is odd,
\* and the negative terminal is in column P when S is odd and in column 1
\* when S is even.  For P >= 2 this is "last column iff s even" and "last
\* column iff S odd"; for P = 1 the one column is first and last at once.
C29_ViewsAgreeOnSnake ==
    PackBuilt =>
        /\ ViewsAgree
        /\ \A s \in 0..(series - 2) :
              /\ BatteryGrid(series, parallel).seriesStrips[s + 1].gridColumn
                    = (IF s % 2 = 0 THEN parallel ELSE 1)
              /\ (parallel >= 2) =>
                    ((Column3D(SeriesStripPos(s)[1]) = parallel) <=> (s % 2 = 0))
        /\ BatteryGrid(series, parallel).negTerminal.gridColumn
              = (IF series % 2 # 0 THEN parallel ELSE 1)
        /\ (parallel >= 2) =>
              ((Column3D(NegTerminalPos[1]) = parallel) <=> (series % 2 # 0))

\* a 3S3P pack is built: both views have the first series strip in column
\* 3, the second in column 1 and the negative terminal in row 3, column 3
C29_Witness ==
    /\ PackBuilt
    /\ series = 3
    /\ parallel = 3
    /\ buildLog.ran
    /\ Column3D(SeriesStripPos(0)[1]) = 3
    /\ Column3D(SeriesStripPos(1)[1]) = 1
    /\ BatteryGrid(3, 3).seriesStrips = <<gridSeriesStrip(0, 3), gridSeriesStrip(1, 3)>>
    /\ BatteryGrid(3, 3).seriesStrips[2].gridColumn = 1
    /\ Column3D(NegTerminalPos[1]) = 3
    /\ BatteryGrid(3, 3).negTerminal = [gridRow |-> 3, gridColumn |-> 3]

---------------------------------------------------------------------------
(* The calculator *)

\* the calculator shows the configuration of the values in its inputs
Calculated == CalculatorIdle /\ app.packConfig # Null

\* C25: for positive inputs the calculator yields totalCells = series *
\* parallel, a pack that meets or exceeds the desired voltage and capacity
\* (series * cellVoltage >= desiredVoltage, parallel * cellCapacity >=
\* desiredCapacity) and that is minimal: one series cell or one parallel
\* cell fewer falls short of the target.  Together: series and parallel
\* are the ceilings of the two quotients.  (Stated for the decimal inputs.)
C25_CalculatorCeilMinimal ==
    (Calculated /\ \A x \in {app.desiredVoltage, app.cellVoltage,
                              app.desiredCapacity, app.cellCapacity} : x.e = -1) =>
        /\ app.packConfig.totalCells = app.packConfig.series * app.packConfig.parallel
        /\ app.packConfig.series * app.cellVoltage.v >= app.desiredVoltage.v
        /\ app.packConfig.parallel * app.cellCapacity.v >= app.desiredCapacity.v
        /\ (app.packConfig.series - 1) * app.cellVoltage.v < app.desiredVoltage.v
        /\ (app.packConfig.parallel - 1) * app.cellCapacity.v < app.desiredCapacity.v

\* the four inputs of the calculator are positive numbers
InputsPositive ==
    /\ GreaterThanZero(app.desiredVoltage) /\ GreaterThanZero(app.desiredCapacity)
    /\ GreaterThanZero(app.cellVoltage) /\ GreaterThanZero(app.cellCapacity)

\* C28: in every state of the application the modeler page is displayed
\* only with a pack configuration that is not null and has series >= 1,
\* parallel >= 1 and series * parallel = totalCells <= 200, which is the
\* configuration the page and the scene work on; with an input that is not
\* a positive number the calculator has no configuration and the modeler
\* cannot be opened, nor can it with more than 200 cells; and whenever the
\* calculator is displayed the stored configuration is null.
C28_ModelerOnlyWithValidConfig ==
    /\ mounted <=> (app.page = "modeler")
    /\ app.page \in {"calculator", "modeler"}
    /\ mounted =>
          /\ app.modelerConfig # Null
          /\ app.modelerConfig.series >= 1
          /\ app.modelerConfig.parallel >= 1
          /\ app.modelerConfig.series * app.modelerConfig.parallel
                = app.modelerConfig.totalCells
          /\ app.modelerConfig.totalCells <= 200
          /\ series = app.modelerConfig.series
          /\ parallel = app.modelerConfig.parallel
    /\ (CalculatorIdle /\ ~InputsPositive) =>
          (app.packConfig = Null /\ ~ENABLED NavigateToModeler)
    /\ (Calculated /\ app.packConfig.totalCells > 200) => ~ENABLED NavigateToModeler
    /\ (app.page = "calculator") => (app.modelerConfig = Null)

---------------------------------------------------------------------------
(* Exports and the building state *)

\* the step just taken was a call of an export handler
Exported == lastExport.outcome \in {"file", "alert", "svg"}

\* C26: an export handler runs only while isBuilding is false and no build
\* is scheduled, after a run of the pack building effect that completed;
\* the exportable mesh it finds is the one built from the current S, P and
\* cell family, and the object a bracket-mode STL export serializes is the
\* bracket assembly of exactly these.
C26_ExportReadsCurrentBuild ==
    Exported =>
        /\ ~isBuilding
        /\ ~buildPending
        /\ buildLog.ran /\ buildLog.completed
        /\ lastExport.series = series /\ lastExport.parallel = parallel
        /\ totalCells(series, parallel) # 0 =>
              exportableMeshRef = bracketAssembly(series, parallel, HOLDER_DIMENSIONS[cellType])
        /\ (lastExport.outcome = "file" /\ lastExport.mode = "bracket") =>
              lastExport.mesh = bracketAssembly(series, parallel, HOLDER_DIMENSIONS[cellType])

\* a bracket-mode STL export after the pack was rebuilt for another family
C26_Witness ==
    /\ lastExport.outcome = "file"
    /\ lastExport.mode = "bracket"
    /\ buildLog.removed
    /\ cellType = "21700"
    /\ series = 2
    /\ parallel = 3
    /\ lastExport.mesh = bracketAssembly(2, 3, HOLDER_DIMENSIONS["21700"])

\* C27: whenever the page is building (after a cell-type selection, the
\* selection of the family already selected included, and after the first
\* render), isBuilding eventually returns to false, unless the page is
\* left; it never stays true forever.
C27_BuildingEnds == (mounted /\ isBuilding) ~> (~isBuilding \/ ~mounted)

===========================================================================
